---- MODULE Spec2Model ----
(***************************************************************************)
(* Model of src/src/hooks/useLocalNetwork.ts: the React hook that owns the *)
(* peer discovery and connection-negotiation orchestrator.                 *)
(*                                                                         *)
(* A "hook" is one mounted useLocalNetwork instance (one participant).     *)
(* A "session" is one run of the first useEffect body (lines 44-228): the  *)
(* closure that owns isActive, peersRef, pendingConnections and the two    *)
(* timers.  WebRTCManager, LocalSignalingServer and RTCPeerConnection      *)
(* objects live in pools (sequences), so that object identity is visible.  *)
(* Peer identities are small naturals; their order stands for the order    *)
(* of the identity strings compared on line 96.                            *)
(***************************************************************************)
EXTENDS Naturals, Integers, Sequences, FiniteSets, Bags, TLC

\* ------------------------------------------------------------------ bounds
MaxRenders  == 2     \* renders (mount, prop changes) over all hooks
\* Signal handlers that reach an await, over all sessions, in each specification.
MaxHandlers     == 2     \* Spec
MaxLifeHandlers == 1     \* SpecLife
MaxPairHandlers == 3     \* SpecPair
MaxFairHandlers == 3     \* SpecFair

Hooks    == {1, 2}
Ids      == {1, 2, 3}
Names    == {"", "ann", "bob"}
Rooms    == {"lobby", "den"}
\* Props of a first render: names and rooms are interchangeable, so a hook mounts
\* without a user name yet or as "ann", in the lobby.
MountProps == {<<"", "lobby">>, <<"ann", "lobby">>}
MsgTypes == {"peer-discovery", "offer", "answer", "ice-candidate"}

VARIABLES
    hook,       \* per hook: props of the last render, the refs, effect bookkeeping
    mgr,        \* pool of WebRTCManager objects
    chan,       \* pool of LocalSignalingServer objects
    conn,       \* pool of RTCPeerConnection objects
    sess,       \* pool of effect closures (sessions)
    tasks,      \* bag of signal handlers suspended at an await
    net,        \* signaling messages sent and deliverable (at-least-once, unordered)
    renders,    \* number of renders so far
    started,    \* number of signal handlers that reached an await so far
    lastEvent   \* the callback that ran last, and what it did

vars == <<hook, mgr, chan, conn, sess, tasks, net, renders, started, lastEvent>>

\* ------------------------------------------------------------------ helpers
NoPeers == [p \in Ids |-> 0]
NoCount == [p \in Ids |-> 0]

Event(kind, s, type, from, sent, op) ==
    [kind |-> kind, sess |-> s, type |-> type, from |-> from, sent |-> sent, op |-> op]

SeqIdx(q) == 1..Len(q)

\* getLocalPeerId() of the WebRTCManager a session captured (line 57).
LocalPeerId(s) == mgr[sess[s].webrtc].peerId

\* The identity a new WebRTCManager gives itself: unique per manager.  The first
\* manager takes the middle identity, so that peers below and above it exist; a later
\* one takes any identity not yet in use.
FreeIds ==
    IF mgr = <<>> THEN {2} ELSE Ids \ {mgr[m].peerId : m \in SeqIdx(mgr)}

\* WebRTCManager.cleanup(): releases the Transport context, closing its connections.
MgrCleanup(ms, m) == [ms EXCEPT ![m].cleaned = TRUE, ![m].peers = NoPeers]
ConnsClosedOf(cs, m) ==
    [k \in SeqIdx(cs) |-> IF cs[k].mgr = m
                         THEN [cs[k] EXCEPT !.closed = TRUE, !.signalingState = "closed"]
                         ELSE cs[k]]

\* LocalSignalingServer.send / broadcast: a closed channel delivers nothing.
Envelope(c, type, to) == [type |-> type, from |-> chan[c].peerId, to |-> to, room |-> chan[c].room]
Emit(c, type, to) == IF chan[c].closed THEN net ELSE net \cup {Envelope(c, type, to)}

\* ------------------------------------------------------------------ initial state
\* Nothing is mounted: no manager, channel, connection or session exists yet.
Init ==
    /\ hook = [h \in Hooks |->
                 [mounted |-> FALSE, userName |-> "", roomId |-> "lobby",
                  webrtcRef |-> 0, signalingRef |-> 0, currentRoomRef |-> "lobby",
                  initializingRef |-> FALSE, effectSess |-> 0, phase |-> "idle"]]
    /\ mgr = <<>>
    /\ chan = <<>>
    /\ conn = <<>>
    /\ sess = <<>>
    /\ tasks = EmptyBag
    /\ net = {}
    /\ renders = 0
    /\ started = 0
    /\ lastEvent = Event("init", 0, "", 0, "none", FALSE)

\* ------------------------------------------------------------------ render body
\* Line 13: a WebRTCManager is (re)constructed when there is none or the room changed.
NeedWebrtc(webrtcRef, currentRoom, userName, roomId) ==
    (webrtcRef = 0 \/ currentRoom # roomId) /\ userName # ""

\* Line 24: a LocalSignalingServer is constructed when there is none or the room
\* differs from currentRoomRef, which line 21 has already set to roomId.
NeedSignaling(signalingRef, currentRoom, userName, roomId, webrtcRef) ==
    (signalingRef = 0 \/ currentRoom # roomId) /\ userName # "" /\ webrtcRef # 0

\* Lines 5-35 for one render of hook h with props (u, r).  A render with unchanged
\* props changes no ref and re-runs no effect, so only changed props are drawn.
Render(h, u, r) ==
    LET H     == hook[h]
        cur0  == IF H.mounted THEN H.currentRoomRef ELSE r            \* line 11
        c1    == NeedWebrtc(H.webrtcRef, cur0, u, r)                  \* line 13
        chg1  == c1 /\ H.webrtcRef # 0 /\ cur0 # r                    \* line 14
        web1  == IF c1 THEN Len(mgr) + 1 ELSE H.webrtcRef             \* line 19
        cur1  == IF c1 THEN r ELSE cur0                               \* line 21
        c2    == NeedSignaling(H.signalingRef, cur1, u, r, web1)      \* line 24
        chg2  == c2 /\ H.signalingRef # 0 /\ cur1 # r                 \* line 25
        sig1  == IF c2 THEN Len(chan) + 1 ELSE H.signalingRef         \* line 28
        mgrA  == IF chg1 THEN MgrCleanup(mgr, H.webrtcRef) ELSE mgr   \* line 16
        chanA == IF (chg1 \/ chg2) /\ H.signalingRef # 0              \* lines 17, 26
                 THEN [chan EXCEPT ![H.signalingRef].closed = TRUE] ELSE chan
    IN  /\ renders < MaxRenders
        /\ H.phase = "idle"
        /\ IF H.mounted THEN <<u, r>> # <<H.userName, H.roomId>> ELSE <<u, r>> \in MountProps
        /\ \E id \in IF c1 THEN FreeIds ELSE {0} :
             /\ mgr' = IF c1
                       THEN Append(mgrA, [peerId |-> id, peers |-> NoPeers,
                                          onPeerUpdate |-> 0, cleaned |-> FALSE])
                       ELSE mgrA
             /\ chan' = IF c2
                        THEN Append(chanA, [peerId |-> IF c1 THEN id ELSE mgr[web1].peerId,
                                            room |-> r, closed |-> FALSE, onSignal |-> 0])
                        ELSE chanA
        /\ conn' = IF chg1 THEN ConnsClosedOf(conn, H.webrtcRef) ELSE conn
        /\ hook' = [hook EXCEPT ![h] =
                      [H EXCEPT !.mounted = TRUE, !.userName = u, !.roomId = r,
                                !.webrtcRef = web1, !.signalingRef = sig1,
                                !.currentRoomRef = cur1, !.phase = "rendered"]]
        /\ renders' = renders + 1
        /\ lastEvent' = Event("render", 0, "", 0, "none", chg1)
        /\ UNCHANGED <<sess, tasks, net, started>>

\* ------------------------------------------------------------------ effect cleanup
\* Lines 222-227: the cleanup React runs before re-running the effect.
EffectCleanup(h) ==
    LET s == hook[h].effectSess
    IN  /\ hook[h].phase = "rendered"
        /\ s # 0
        /\ sess' = [sess EXCEPT ![s].isActive = FALSE,                 \* line 224
                                ![s].discoveryInterval = FALSE]        \* line 226
        /\ hook' = [hook EXCEPT ![h].initializingRef = FALSE,          \* line 225
                                ![h].phase = "cleaned"]
        /\ lastEvent' = Event("cleanup", s, "", 0, "none", FALSE)
        /\ UNCHANGED <<mgr, chan, conn, tasks, net, renders, started>>

\* ------------------------------------------------------------------ effect body
\* A registry kept across effect runs instead of being made anew.
CarriedPeersRef(h) ==
    IF hook[h].effectSess # 0 THEN sess[hook[h].effectSess].peersRef ELSE NoPeers

\* Line 59: the registry a new session starts with.
NewPeersRef(h) == NoPeers

\* Line 60: the PendingSet a new session starts with.
NewPendingConnections(h) == {}

\* Lines 44-220.  Runs right after the cleanup of the previous effect, or alone when
\* the previous effect returned no cleanup.
EffectRun(h) ==
    LET H == hook[h]
        s == Len(sess) + 1
        c == H.signalingRef
    IN  /\ \/ H.phase = "cleaned"
           \/ H.phase = "rendered" /\ H.effectSess = 0
        /\ IF H.userName = "" \/ H.webrtcRef = 0 \/ c = 0 \/ H.initializingRef
           THEN \* lines 45-53: early return, no cleanup function
                /\ hook' = [hook EXCEPT ![h].effectSess = 0, ![h].phase = "idle"]
                /\ lastEvent' = Event("effect", 0, "", 0, "none", FALSE)
                /\ UNCHANGED <<mgr, chan, sess, net>>
           ELSE /\ hook' = [hook EXCEPT ![h].initializingRef = TRUE,              \* 55
                                        ![h].effectSess = s, ![h].phase = "idle"]
                /\ sess' = Append(sess,
                     [hook |-> h, isActive |-> TRUE,                               \* 56
                      webrtc |-> H.webrtcRef, signaling |-> c,                     \* 57-58
                      peersRef |-> NewPeersRef(h),                                 \* 59
                      pendingConnections |-> NewPendingConnections(h),             \* 60
                      discoveryInterval |-> TRUE,                                  \* 204
                      secondTimer |-> TRUE,                                        \* 214
                      offers |-> NoCount])
                /\ mgr' = [mgr EXCEPT ![H.webrtcRef].onPeerUpdate = s]             \* 62
                /\ chan' = [chan EXCEPT ![c].onSignal = s]                         \* 81
                /\ net' = Emit(c, "peer-discovery", 0)                             \* 212
                /\ lastEvent' = Event("effect", s, "", 0, "peer-discovery", FALSE)
        /\ UNCHANGED <<conn, tasks, renders, started>>

\* No callback of hook h's page runs between the cleanup and the effect body: React
\* flushes both in one task.
Flushing(s) == hook[sess[s].hook].phase = "cleaned"

\* ------------------------------------------------------------------ discovery timers
TimerAlwaysBroadcasts(s) == TRUE

TimerNeverBroadcasts(s) == FALSE

\* Lines 205 and 215: the liveness check both timer callbacks make.
TimerMayBroadcast(s) == sess[s].isActive

\* Lines 204-209: one tick of the repeating interval.
IntervalTick(s) ==
    /\ sess[s].discoveryInterval
    /\ ~Flushing(s)
    /\ IF TimerMayBroadcast(s)
       THEN /\ net' = Emit(sess[s].signaling, "peer-discovery", 0)
            /\ lastEvent' = Event("interval", s, "", 0, "peer-discovery", FALSE)
       ELSE /\ net' = net
            /\ lastEvent' = Event("interval", s, "", 0, "none", FALSE)
    /\ UNCHANGED <<hook, mgr, chan, conn, sess, tasks, renders, started>>

\* Lines 214-219: the one-shot delayed second broadcast.  Nothing cancels it.
SecondTimerFire(s) ==
    /\ sess[s].secondTimer
    /\ ~Flushing(s)
    /\ sess' = [sess EXCEPT ![s].secondTimer = FALSE]
    /\ IF TimerMayBroadcast(s)
       THEN /\ net' = Emit(sess[s].signaling, "peer-discovery", 0)
            /\ lastEvent' = Event("timeout", s, "", 0, "peer-discovery", FALSE)
       ELSE /\ net' = net
            /\ lastEvent' = Event("timeout", s, "", 0, "none", FALSE)
    /\ UNCHANGED <<hook, mgr, chan, conn, tasks, renders, started>>

\* ------------------------------------------------------------------ channel failures
\* signaling.broadcast throwing.  No call of it stands in a try block.
\* Lines 44-212 with the broadcast of line 212 throwing: the subscriptions are made
\* and the interval is armed (line 204), the timeout of line 214 is not, and the
\* effect returns no cleanup function; React unmounts a component whose effect threw.
EffectRunThrows(h) ==
    LET H == hook[h]
        s == Len(sess) + 1
        c == H.signalingRef
    IN  /\ \/ H.phase = "cleaned"
           \/ H.phase = "rendered" /\ H.effectSess = 0
        /\ ~(H.userName = "" \/ H.webrtcRef = 0 \/ c = 0 \/ H.initializingRef)
        /\ hook' = [hook EXCEPT ![h].initializingRef = TRUE,                      \* 55
                                ![h].effectSess = 0, ![h].phase = "crashed"]
        /\ sess' = Append(sess,
             [hook |-> h, isActive |-> TRUE,                                       \* 56
              webrtc |-> H.webrtcRef, signaling |-> c,                             \* 57-58
              peersRef |-> NewPeersRef(h),                                         \* 59
              pendingConnections |-> NewPendingConnections(h),                     \* 60
              discoveryInterval |-> TRUE,                                          \* 204
              secondTimer |-> FALSE,
              offers |-> NoCount])
        /\ mgr' = [mgr EXCEPT ![H.webrtcRef].onPeerUpdate = s]                     \* 62
        /\ chan' = [chan EXCEPT ![c].onSignal = s]                                 \* 81
        /\ lastEvent' = Event("effect", s, "", 0, "failed", FALSE)
        /\ UNCHANGED <<conn, tasks, net, renders, started>>

\* Lines 204-209 with the broadcast throwing: the exception leaves the callback and
\* the interval stays armed.
IntervalTickThrows(s) ==
    /\ sess[s].discoveryInterval
    /\ ~Flushing(s)
    /\ TimerMayBroadcast(s)
    /\ lastEvent' = Event("interval", s, "", 0, "failed", FALSE)
    /\ UNCHANGED <<hook, mgr, chan, conn, sess, tasks, net, renders, started>>

\* Lines 214-219 with the broadcast throwing.
SecondTimerThrows(s) ==
    /\ sess[s].secondTimer
    /\ ~Flushing(s)
    /\ TimerMayBroadcast(s)
    /\ sess' = [sess EXCEPT ![s].secondTimer = FALSE]
    /\ lastEvent' = Event("timeout", s, "", 0, "failed", FALSE)
    /\ UNCHANGED <<hook, mgr, chan, conn, tasks, net, renders, started>>

\* ------------------------------------------------------------------ Transport
\* RTCPeerConnection as the Transport Adapter contract describes it: every operation
\* is asynchronous and may fail; it can succeed only on an open handle in the
\* signaling state the operation needs.
NewConn(m, p, s) ==
    [mgr |-> m, peer |-> p, sess |-> s, signalingState |-> "stable",
     closed |-> FALSE]

CanSucceed(t) ==
    LET k == conn[t.conn]
    IN  /\ ~k.closed
        /\ CASE t.pc = "create"       -> TRUE
             [] t.pc = "createOffer"  -> TRUE
             [] t.pc = "createAnswer" -> k.signalingState = "have-remote-offer"
             [] t.pc = "setLocal"     ->
                    k.signalingState = (IF t.type = "offer" THEN "have-remote-offer" ELSE "stable")
             [] t.pc = "setRemote"    ->
                    k.signalingState = (IF t.type = "answer" THEN "have-local-offer" ELSE "stable")
             [] t.pc = "addIce"       -> TRUE

Task(s, type, from, pc, k) == [sess |-> s, type |-> type, from |-> from, pc |-> pc, conn |-> k]

Suspend(t) == tasks (+) SetToBag({t})
Finish(t)  == tasks (-) SetToBag({t})
Step(t, pc) == (tasks (-) SetToBag({t})) (+) SetToBag({[t EXCEPT !.pc = pc]})

\* webrtc.createPeerConnection(from, fromName), lines 103 and 140: the manager makes
\* a connection for the peer and lists it among its peers.
CreatePeerConnection(s, from) ==
    /\ conn' = Append(conn, NewConn(sess[s].webrtc, from, s))
    /\ mgr' = [mgr EXCEPT ![sess[s].webrtc].peers[from] = Len(conn) + 1]

\* ------------------------------------------------------------------ signal handler
\* Variants of the decision with one condition wrong, used to show that the
\* properties below depend on it.
ShouldInitiateNoTieBreak(s, from) ==
    /\ from # LocalPeerId(s)
    /\ sess[s].peersRef[from] = 0
    /\ from \notin sess[s].pendingConnections

ShouldInitiateNoPendingCheck(s, from) ==
    /\ from # LocalPeerId(s)
    /\ sess[s].peersRef[from] = 0
    /\ LocalPeerId(s) > from

ShouldInitiateNoSelfCheck(s, from) ==
    /\ sess[s].peersRef[from] = 0
    /\ from \notin sess[s].pendingConnections
    /\ LocalPeerId(s) >= from

\* Lines 87-96: the peer-discovery decision, self check included.
ShouldInitiate(s, from) ==
    /\ from # LocalPeerId(s)                       \* lines 90-92
    /\ sess[s].peersRef[from] = 0                  \* !existingPeer
    /\ from \notin sess[s].pendingConnections
    /\ LocalPeerId(s) > from

AnswerApplicableAnyState(s, from) == sess[s].peersRef[from] # 0

\* Lines 173-176: an answer is applied only to a known handle awaiting an answer.
AnswerApplicable(s, from) ==
    /\ sess[s].peersRef[from] # 0
    /\ conn[sess[s].peersRef[from]].signalingState = "have-local-offer"

IceApplicableAlways(s, from) == TRUE

\* Lines 190-191: a candidate is applied only to a known handle.
IceApplicable(s, from) == sess[s].peersRef[from] # 0

\* Line 82: the check every signal handler starts with.
HandlerMayRun(s) == sess[s].isActive

\* Lines 81-202 up to the first await of the branch taken.
OnSignal(s, type, from) ==
    LET S     == sess[s]
        known == S.peersRef[from]
        quiet == /\ lastEvent' = Event("signal", s, type, from, "none", FALSE)
                 /\ UNCHANGED <<mgr, conn, tasks, started>>
        await == /\ started' = started + 1
                 /\ lastEvent' = Event("signal", s, type, from, "none", TRUE)
    IN
    /\ ~Flushing(s)
    /\ UNCHANGED <<hook, chan, net, renders>>
    /\ IF ~HandlerMayRun(s)
       THEN quiet /\ sess' = sess
       ELSE CASE type = "peer-discovery" ->
                 IF ShouldInitiate(s, from)
                 THEN /\ await
                      /\ CreatePeerConnection(s, from)
                      /\ sess' = [sess EXCEPT
                            ![s].pendingConnections = @ \cup {from}]          \* line 100
                      /\ tasks' = Suspend(Task(s, type, from, "create", Len(conn) + 1))
                 ELSE quiet /\ sess' = sess
              [] type = "offer" ->
                 /\ await
                 /\ sess' = sess
                 /\ IF known = 0
                    THEN /\ CreatePeerConnection(s, from)                      \* line 140
                         /\ tasks' = Suspend(Task(s, type, from, "create", Len(conn) + 1))
                    ELSE /\ tasks' = Suspend(Task(s, type, from, "setRemote", known)) \* 153
                         /\ UNCHANGED <<mgr, conn>>
              [] type = "answer" ->
                 /\ sess' = sess
                 /\ IF AnswerApplicable(s, from)
                    THEN /\ await
                         /\ tasks' = Suspend(Task(s, type, from, "setRemote", known)) \* 177
                         /\ UNCHANGED <<mgr, conn>>
                    ELSE quiet
              [] type = "ice-candidate" ->
                 /\ sess' = sess
                 /\ IF IceApplicable(s, from)
                    THEN /\ await
                         /\ tasks' = Suspend(Task(s, type, from, "addIce", known))    \* 193
                         /\ UNCHANGED <<mgr, conn>>
                    ELSE quiet

\* A message the Signaling Channel c holds is handed to its subscriber.
Receives(c, msg) ==
    /\ ~chan[c].closed
    /\ chan[c].onSignal # 0
    /\ msg.room = chan[c].room
    /\ msg.to \in {0, chan[c].peerId}

Deliver(c, msg) ==
    /\ Receives(c, msg)
    /\ OnSignal(chan[c].onSignal, msg.type, msg.from)

\* A message of a participant that is not modelled as a hook (or a duplicate, late or
\* forged one) reaches the subscriber of channel c.
EnvDeliver(c, type, from) ==
    /\ ~chan[c].closed
    /\ chan[c].onSignal # 0
    /\ OnSignal(chan[c].onSignal, type, from)

\* ------------------------------------------------------------------ continuations
\* A createPeerConnection that rejects leaves no handle behind.
Discard(k) ==
    /\ conn' = [conn EXCEPT ![k].closed = TRUE, ![k].signalingState = "closed"]
    /\ mgr' = [mgr EXCEPT ![conn[k].mgr].peers =
                  [p \in Ids |-> IF @[p] = k THEN 0 ELSE @[p]]]

\* Lines 125-128: the catch of the initiation sequence.
CatchInitiate(t) ==
    /\ sess' = [sess EXCEPT ![t.sess].pendingConnections = @ \ {t.from}]      \* line 127
    /\ tasks' = Finish(t)
    /\ net' = net
    /\ lastEvent' = Event("resume", t.sess, t.type, t.from, "none", FALSE)

\* A continuation that gives up while any peer is pending.
ContinuationBlockedByPending(s) == sess[s].pendingConnections = {}

\* Line 82 is the only liveness check of a handler: a continuation makes none.
ContinuationMayRun(s) == TRUE

\* Lines 103-128 after an await of the initiating branch settles (ok: it resolved).
ResumeInitiate(t, ok) ==
    /\ t \in BagToSet(tasks)
    /\ t.type = "peer-discovery"
    /\ ~Flushing(t.sess)
    /\ ok => CanSucceed(t)
    /\ UNCHANGED <<hook, chan, renders, started>>
    /\ IF ~ContinuationMayRun(t.sess)
       THEN /\ tasks' = Finish(t)
            /\ lastEvent' = Event("resume", t.sess, t.type, t.from, "none", FALSE)
            /\ UNCHANGED <<mgr, conn, sess, net>>
       ELSE
       CASE t.pc = "create" ->
            IF ok
            THEN /\ tasks' = Step(t, "createOffer")                           \* line 115
                 /\ lastEvent' = Event("resume", t.sess, t.type, t.from, "none", TRUE)
                 /\ UNCHANGED <<mgr, conn, sess, net>>
            ELSE Discard(t.conn) /\ CatchInitiate(t)
         [] t.pc = "createOffer" ->
            IF ok
            THEN /\ tasks' = Step(t, "setLocal")                              \* line 116
                 /\ lastEvent' = Event("resume", t.sess, t.type, t.from, "none", TRUE)
                 /\ UNCHANGED <<mgr, conn, sess, net>>
            ELSE CatchInitiate(t) /\ UNCHANGED <<mgr, conn>>
         [] t.pc = "setLocal" ->
            IF ok
            THEN /\ conn' = [conn EXCEPT ![t.conn].signalingState = "have-local-offer"]
                 /\ net' = Emit(sess[t.sess].signaling, "offer", t.from)      \* line 118
                 /\ sess' = [sess EXCEPT ![t.sess].offers[t.from] = @ + 1]
                 /\ tasks' = Finish(t)
                 /\ lastEvent' = Event("resume", t.sess, t.type, t.from, "offer", FALSE)
                 /\ mgr' = mgr
            ELSE CatchInitiate(t) /\ UNCHANGED <<mgr, conn>>

\* Lines 140-169 after an await of the offer branch settles.
ResumeOffer(t, ok) ==
    /\ t \in BagToSet(tasks)
    /\ t.type = "offer"
    /\ ~Flushing(t.sess)
    /\ ok => CanSucceed(t)
    /\ UNCHANGED <<hook, chan, sess, renders, started>>
    /\ IF ~ok \/ ~ContinuationMayRun(t.sess)
       THEN \* lines 167-169: logged, nothing else
            /\ IF t.pc = "create" /\ ~ok THEN Discard(t.conn) ELSE UNCHANGED <<mgr, conn>>
            /\ tasks' = Finish(t)
            /\ net' = net
            /\ lastEvent' = Event("resume", t.sess, t.type, t.from, "none", FALSE)
       ELSE
       CASE t.pc = "create" ->
            /\ tasks' = Step(t, "setRemote")                                  \* line 153
            /\ lastEvent' = Event("resume", t.sess, t.type, t.from, "none", TRUE)
            /\ UNCHANGED <<mgr, conn, net>>
         [] t.pc = "setRemote" ->
            /\ conn' = [conn EXCEPT ![t.conn].signalingState = "have-remote-offer"]
            /\ tasks' = Step(t, "createAnswer")                               \* line 157
            /\ lastEvent' = Event("resume", t.sess, t.type, t.from, "none", TRUE)
            /\ UNCHANGED <<mgr, net>>
         [] t.pc = "createAnswer" ->
            /\ tasks' = Step(t, "setLocal")                                   \* line 158
            /\ lastEvent' = Event("resume", t.sess, t.type, t.from, "none", TRUE)
            /\ UNCHANGED <<mgr, conn, net>>
         [] t.pc = "setLocal" ->
            /\ conn' = [conn EXCEPT ![t.conn].signalingState = "stable"]
            /\ net' = Emit(sess[t.sess].signaling, "answer", t.from)          \* line 160
            /\ tasks' = Finish(t)
            /\ lastEvent' = Event("resume", t.sess, t.type, t.from, "answer", FALSE)
            /\ mgr' = mgr

\* Lines 177-187 after the await of the answer branch settles.
ResumeAnswer(t, ok) ==
    /\ t \in BagToSet(tasks)
    /\ t.type = "answer"
    /\ ~Flushing(t.sess)
    /\ ok => CanSucceed(t)
    /\ tasks' = Finish(t)
    /\ lastEvent' = Event("resume", t.sess, t.type, t.from, "none", FALSE)
    /\ IF ok
       THEN /\ conn' = [conn EXCEPT ![t.conn].signalingState = "stable"]
            /\ sess' = [sess EXCEPT ![t.sess].pendingConnections = @ \ {t.from}]  \* 180
       ELSE UNCHANGED <<conn, sess>>                                              \* 185-187
    /\ UNCHANGED <<hook, mgr, chan, net, renders, started>>

\* Lines 193-199 after addIceCandidate settles: logged either way.
ResumeIce(t, ok) ==
    /\ t \in BagToSet(tasks)
    /\ t.type = "ice-candidate"
    /\ ~Flushing(t.sess)
    /\ ok => CanSucceed(t)
    /\ tasks' = Finish(t)
    /\ lastEvent' = Event("resume", t.sess, t.type, t.from, "none", FALSE)
    /\ UNCHANGED <<hook, mgr, chan, conn, sess, net, renders, started>>

\* ------------------------------------------------------------------ manager callbacks
\* Lines 62-67: the manager reports its peers to the subscribed callback.
PeerUpdate(m) ==
    LET s == mgr[m].onPeerUpdate
    IN  /\ s # 0
        /\ \E p \in Ids : mgr[m].peers[p] # 0
        /\ ~Flushing(s)
        /\ sess' = IF sess[s].isActive                                        \* line 63
                   THEN [sess EXCEPT ![s].peersRef =                          \* line 66
                           [p \in Ids |-> IF mgr[m].peers[p] # 0 THEN mgr[m].peers[p] ELSE @[p]]]
                   ELSE sess
        /\ lastEvent' = Event("peerUpdate", s, "", 0, "none", FALSE)
        /\ UNCHANGED <<hook, mgr, chan, conn, tasks, net, renders, started>>

\* The manager drops peer p (its connection went away) and reports the peers it
\* still lists; the callback of lines 62-67 runs with that list.
PeerLeaves(m, p) ==
    LET s    == mgr[m].onPeerUpdate
        k    == mgr[m].peers[p]
        rest == [q \in Ids |-> IF q = p THEN 0 ELSE mgr[m].peers[q]]
    IN  /\ s # 0
        /\ k # 0
        /\ ~Flushing(s)
        /\ mgr' = [mgr EXCEPT ![m].peers = rest]
        /\ conn' = [conn EXCEPT ![k].closed = TRUE, ![k].signalingState = "closed"]
        /\ sess' = IF sess[s].isActive                                        \* line 63
                   THEN [sess EXCEPT ![s].peersRef =                          \* line 66
                           [q \in Ids |-> IF rest[q] # 0 THEN rest[q] ELSE @[q]]]
                   ELSE sess
        /\ lastEvent' = Event("peerUpdate", s, "", p, "none", FALSE)
        /\ UNCHANGED <<hook, chan, tasks, net, renders, started>>

\* ------------------------------------------------------------------ specifications
Mount(h, u, r) == ~hook[h].mounted /\ Render(h, u, r)

\* The budget of handlers that reach an await.
Within(n) == started' <= n

Resume(t, ok) ==
    \/ ResumeInitiate(t, ok)
    \/ ResumeOffer(t, ok)
    \/ ResumeAnswer(t, ok)
    \/ ResumeIce(t, ok)

\* Spec: one participant and one session; every signal from every identity, in any
\* order and any number of times, with every Transport outcome.
Next ==
    \/ \E u \in Names, r \in Rooms : Mount(1, u, r)
    \/ EffectRun(1)
    \/ \E c \in SeqIdx(chan), msg \in net : Deliver(c, msg) /\ Within(MaxHandlers)
    \/ \E c \in SeqIdx(chan), type \in MsgTypes, from \in Ids :
          EnvDeliver(c, type, from) /\ Within(MaxHandlers)
    \/ \E t \in BagToSet(tasks), ok \in BOOLEAN : ResumeInitiate(t, ok)
    \/ \E t \in BagToSet(tasks), ok \in BOOLEAN : ResumeOffer(t, ok)
    \/ \E t \in BagToSet(tasks), ok \in BOOLEAN : ResumeAnswer(t, ok)
    \/ \E t \in BagToSet(tasks), ok \in BOOLEAN : ResumeIce(t, ok)
    \/ \E m \in SeqIdx(mgr) : PeerUpdate(m)

Spec == Init /\ [][Next]_vars

\* SpecLife: one participant whose props change (room switch, display-name change,
\* user name set late), with the timers, while a lesser peer announces itself and a
\* greater peer offers.
LifeSignals == {<<"peer-discovery", 1>>, <<"offer", 3>>}

NextLife ==
    \/ \E u \in Names, r \in Rooms : Render(1, u, r)
    \/ EffectCleanup(1)
    \/ EffectRun(1)
    \/ \E s \in SeqIdx(sess) : IntervalTick(s)
    \/ \E s \in SeqIdx(sess) : SecondTimerFire(s)
    \/ \E c \in SeqIdx(chan), sg \in LifeSignals :
          EnvDeliver(c, sg[1], sg[2]) /\ Within(MaxLifeHandlers)
    \/ \E t \in BagToSet(tasks), ok \in BOOLEAN : ResumeInitiate(t, ok)
    \/ \E t \in BagToSet(tasks), ok \in BOOLEAN : ResumeOffer(t, ok)
    \/ \E m \in SeqIdx(mgr) : PeerUpdate(m)

SpecLife == Init /\ [][NextLife]_vars

\* SpecPair: two participants that mount in the same room and hear only each other.
NextPair ==
    \/ \E h \in Hooks : Mount(h, "ann", "lobby")
    \/ \E h \in Hooks : EffectRun(h)
    \/ \E c \in SeqIdx(chan), msg \in net : Deliver(c, msg) /\ Within(MaxPairHandlers)
    \/ \E t \in BagToSet(tasks), ok \in BOOLEAN : ResumeInitiate(t, ok)
    \/ \E t \in BagToSet(tasks), ok \in BOOLEAN : ResumeOffer(t, ok)
    \/ \E t \in BagToSet(tasks), ok \in BOOLEAN : ResumeAnswer(t, ok)
    \/ \E m \in SeqIdx(mgr) : PeerUpdate(m)

SpecPair == Init /\ [][NextPair]_vars

\* SpecFair: one participant and one session, between a lesser peer P (identity 1)
\* toward which it initiates, with every Transport outcome and with operations and
\* answers that may never arrive, and a greater peer Q (identity 3) that offers and
\* whose Transport operations resolve successfully.
PeerP == 1
PeerQ == 3
FairSignals ==
    {<<"peer-discovery", PeerP>>, <<"answer", PeerP>>,
     <<"peer-discovery", PeerQ>>, <<"offer", PeerQ>>}

\* The handlers of Q's offers that can be suspended.
QTasks ==
    {Task(1, "offer", PeerQ, pc, k) :
        pc \in {"create", "setRemote", "createAnswer", "setLocal"},
        k \in 1..MaxFairHandlers}

NextFair ==
    \/ Mount(1, "ann", "lobby")
    \/ EffectRun(1)
    \/ \E c \in SeqIdx(chan), sg \in FairSignals :
          EnvDeliver(c, sg[1], sg[2]) /\ Within(MaxFairHandlers)
    \/ \E t \in BagToSet(tasks), ok \in BOOLEAN : ResumeInitiate(t, ok)
    \/ \E t \in BagToSet(tasks), ok \in BOOLEAN : ResumeAnswer(t, ok)
    \/ \E t \in BagToSet(tasks) : ResumeOffer(t, TRUE)
    \/ \E m \in SeqIdx(mgr) : PeerUpdate(m)

\* Every awaited Transport operation for Q settles.
SpecFair ==
    Init /\ [][NextFair]_vars /\ \A t \in QTasks : WF_vars(ResumeOffer(t, TRUE))

\* SpecPairFair: the two participants of SpecPair with no Transport failure, every
\* message delivered until it has been acted upon (and again, as a duplicate, within
\* the budget), and every callback and awaited operation eventually running.
\* A delivery is needed while the message has not been acted upon yet.
PairNeeded(c, msg) ==
    LET s == chan[c].onSignal
    IN  /\ s # 0
        /\ CASE msg.type = "peer-discovery" -> ShouldInitiate(s, msg.from)
              [] msg.type = "offer" ->
                   \A k \in SeqIdx(conn) : ~(conn[k].sess = s /\ conn[k].peer = msg.from)
              [] msg.type = "answer" ->
                   /\ AnswerApplicable(s, msg.from)
                   /\ \A t \in BagToSet(tasks) :
                         ~(t.sess = s /\ t.type = "answer" /\ t.from = msg.from)
              [] OTHER -> FALSE

NextPairOk ==
    \/ \E h \in Hooks : Mount(h, "ann", "lobby")
    \/ \E h \in Hooks : EffectRun(h)
    \/ \E c \in SeqIdx(chan), msg \in net :
          Deliver(c, msg) /\ (PairNeeded(c, msg) \/ Within(MaxPairHandlers))
    \/ \E t \in BagToSet(tasks) : ResumeInitiate(t, TRUE)
    \/ \E t \in BagToSet(tasks) : ResumeOffer(t, TRUE)
    \/ \E t \in BagToSet(tasks) : ResumeAnswer(t, TRUE)
    \/ \E m \in SeqIdx(mgr) : PeerUpdate(m)

SpecPairFair ==
    /\ Init /\ [][NextPairOk]_vars
    /\ WF_vars(\E h \in Hooks : Mount(h, "ann", "lobby"))
    /\ WF_vars(\E h \in Hooks : EffectRun(h))
    /\ WF_vars(\E c \in SeqIdx(chan), msg \in net : PairNeeded(c, msg) /\ Deliver(c, msg))
    /\ WF_vars(\E t \in BagToSet(tasks) : ResumeInitiate(t, TRUE))
    /\ WF_vars(\E t \in BagToSet(tasks) : ResumeOffer(t, TRUE))
    /\ WF_vars(\E t \in BagToSet(tasks) : ResumeAnswer(t, TRUE))
    /\ \A m \in Hooks : WF_vars(m \in SeqIdx(mgr) /\ PeerUpdate(m))

\* SpecTimers: one participant whose props change, and the Discovery Scheduler of
\* each of its sessions; every timer and every effect eventually runs.
NextTimers ==
    \/ \E u \in Names, r \in Rooms : Render(1, u, r)
    \/ EffectCleanup(1)
    \/ EffectRun(1)
    \/ \E s \in SeqIdx(sess) : IntervalTick(s)
    \/ \E s \in SeqIdx(sess) : SecondTimerFire(s)

SpecTimers ==
    /\ Init /\ [][NextTimers]_vars
    /\ WF_vars(EffectCleanup(1))
    /\ WF_vars(EffectRun(1))
    /\ \A s \in 1..MaxRenders : WF_vars(s \in SeqIdx(sess) /\ IntervalTick(s))
    /\ \A s \in 1..MaxRenders : WF_vars(s \in SeqIdx(sess) /\ SecondTimerFire(s))

\* SpecChannel: one participant whose props change, with a Signaling Channel whose
\* broadcast may throw at every call.
NextChannel ==
    \/ \E u \in Names, r \in Rooms : Render(1, u, r)
    \/ EffectCleanup(1)
    \/ EffectRun(1)
    \/ EffectRunThrows(1)
    \/ \E s \in SeqIdx(sess) : IntervalTick(s)
    \/ \E s \in SeqIdx(sess) : IntervalTickThrows(s)
    \/ \E s \in SeqIdx(sess) : SecondTimerFire(s)
    \/ \E s \in SeqIdx(sess) : SecondTimerThrows(s)

SpecChannel == Init /\ [][NextChannel]_vars

\* SpecDrop: one participant and one session whose manager also drops peers.
NextDrop ==
    \/ \E u \in Names, r \in Rooms : Mount(1, u, r)
    \/ EffectRun(1)
    \/ \E c \in SeqIdx(chan), type \in {"peer-discovery", "offer"}, from \in Ids :
          EnvDeliver(c, type, from) /\ Within(MaxHandlers)
    \/ \E t \in BagToSet(tasks), ok \in BOOLEAN : ResumeInitiate(t, ok)
    \/ \E t \in BagToSet(tasks), ok \in BOOLEAN : ResumeOffer(t, ok)
    \/ \E m \in SeqIdx(mgr) : PeerUpdate(m)
    \/ \E m \in SeqIdx(mgr), p \in Ids : PeerLeaves(m, p)

SpecDrop == Init /\ [][NextDrop]_vars

\* ================================================================== properties
Sessions == SeqIdx(sess)

\* The step just taken was session s handling a signal of this type from this peer.
Handled(s, type, from) ==
    /\ lastEvent'.kind = "signal"
    /\ lastEvent'.sess = s
    /\ lastEvent'.type = type
    /\ lastEvent'.from = from

JustHandled(s, type, from) ==
    /\ lastEvent.kind = "signal"
    /\ lastEvent.sess = s
    /\ lastEvent.type = type
    /\ lastEvent.from = from

InitiateTasks(s, p) ==
    {t \in BagToSet(tasks) : t.sess = s /\ t.type = "peer-discovery" /\ t.from = p}

\* The handler changed nothing: no record, no PendingSet entry, no handle, no
\* suspended handler, no outbound message, no Transport operation.
NothingDone ==
    /\ UNCHANGED <<sess, mgr, conn, tasks, net>>
    /\ lastEvent'.sent = "none"
    /\ ~lastEvent'.op

\* ------------------------------------------------------------------ C1
C1_FreshDiscovery(s, p) ==
    /\ sess[s].isActive
    /\ sess[s].peersRef[p] = 0
    /\ p \notin sess[s].pendingConnections

C1_Step ==
    \A s \in Sessions, t \in Sessions :
        (s # t /\ Handled(s, "peer-discovery", LocalPeerId(t)) /\ C1_FreshDiscovery(s, LocalPeerId(t)))
        => LET p == LocalPeerId(t)
           IN  /\ (p \in sess'[s].pendingConnections) <=> (LocalPeerId(s) > p)
               /\ (InitiateTasks(s, p)' # {}) <=> (LocalPeerId(s) > p)

C1_State ==
    \A s \in Sessions, t \in Sessions :
        s # t =>
          LET a == LocalPeerId(s)
              b == LocalPeerId(t)
          IN  /\ a # b
              /\ ~(sess[s].offers[b] > 0 /\ sess[t].offers[a] > 0)
              /\ sess[s].offers[b] > 0 => a > b
              /\ (b \in sess[s].pendingConnections /\ InitiateTasks(s, b) = {})
                    => sess[s].offers[b] = 1

\* C1: when two sessions with distinct identities each handle the other's
\* peer-discovery with no record and no PendingSet entry for the other, the one with
\* the greater identity, and only that one, starts an initiation; never do both send
\* an offer to the other, only the greater one ever does, and once its initiation
\* has run through without a Transport failure it has sent exactly one offer.
C1_TieBreakSymmetry == [](C1_State) /\ [][C1_Step]_vars

\* Both have handled the other's discovery: the lesser one last, without initiating,
\* after the greater one sent its offer.
C1_Witness ==
    \E s \in Sessions, t \in Sessions :
        /\ LocalPeerId(s) > LocalPeerId(t)
        /\ sess[s].offers[LocalPeerId(t)] = 1
        /\ JustHandled(t, "peer-discovery", LocalPeerId(s))
        /\ sess[t].isActive
        /\ sess[t].peersRef[LocalPeerId(s)] = 0
        /\ sess[t].pendingConnections = {}

\* ------------------------------------------------------------------ C2
C2_Step ==
    \A s \in Sessions, p \in Ids :
        (/\ Handled(s, "peer-discovery", p)
         /\ (p \in sess[s].pendingConnections \/ sess[s].peersRef[p] # 0))
        => NothingDone

C2_State == \A s \in Sessions, p \in Ids : sess[s].offers[p] <= 1

\* C2: a peer-discovery from a peer that is in PendingSet or has a record creates no
\* handle, starts no handler and sends nothing, also while the first discovery's
\* handler is suspended; a session never sends a second offer to the same peer.
C2_IdempotentDiscovery == [](C2_State) /\ [][C2_Step]_vars

\* A repeated discovery was handled while the first one's handler is suspended.
C2_Witness ==
    \E s \in Sessions, p \in Ids :
        /\ JustHandled(s, "peer-discovery", p)
        /\ sess[s].isActive
        /\ p \in sess[s].pendingConnections
        /\ InitiateTasks(s, p) # {}

\* ------------------------------------------------------------------ C3
C3_Stale(s, p) ==
    \/ sess[s].peersRef[p] = 0
    \/ conn[sess[s].peersRef[p]].signalingState # "have-local-offer"

\* C3: an answer handled when the peer has no handle, or a handle that is not in
\* have-local-offer, is not applied and changes nothing.
C3_StaleAnswerRejected ==
    [][\A s \in Sessions, p \in Ids :
          (Handled(s, "answer", p) /\ C3_Stale(s, p)) => NothingDone]_vars

\* An answer was handled for a peer whose handle exists but awaits no answer.
C3_Witness ==
    \E s \in Sessions, p \in Ids :
        /\ JustHandled(s, "answer", p)
        /\ sess[s].isActive
        /\ sess[s].peersRef[p] # 0
        /\ conn[sess[s].peersRef[p]].signalingState = "stable"
        /\ ~lastEvent.op

\* ------------------------------------------------------------------ C4
\* C4: a peer-discovery whose sender is the local identity changes nothing.
C4_SelfLoopGuard ==
    [][\A s \in Sessions :
          Handled(s, "peer-discovery", LocalPeerId(s)) => NothingDone]_vars

\* A live session has handled its own announcement.
C4_Witness ==
    \E s \in Sessions :
        /\ JustHandled(s, "peer-discovery", LocalPeerId(s))
        /\ sess[s].isActive

\* ------------------------------------------------------------------ C5
\* C5: an ice-candidate from a peer without a handle in the session changes nothing
\* and leaves no handler behind.
C5_UnknownCandidateDropped ==
    [][\A s \in Sessions, q \in Ids :
          (Handled(s, "ice-candidate", q) /\ sess[s].peersRef[q] = 0) => NothingDone]_vars

\* A live session has handled a candidate from a peer it has no handle for.
C5_Witness ==
    \E s \in Sessions, q \in Ids :
        /\ JustHandled(s, "ice-candidate", q)
        /\ sess[s].isActive
        /\ sess[s].peersRef[q] = 0
        /\ q # LocalPeerId(s)

\* ------------------------------------------------------------------ C6
C6_Step ==
    /\ \A s \in Sessions :
          lastEvent'.sess # s =>
             /\ sess'[s].peersRef = sess[s].peersRef
             /\ sess'[s].pendingConnections = sess[s].pendingConnections
    /\ Len(sess') > Len(sess) =>
          /\ sess'[Len(sess')].peersRef = NoPeers
          /\ sess'[Len(sess')].pendingConnections = {}

\* C6: a session starts with an empty registry and an empty PendingSet, and no
\* callback or continuation of another session (a torn-down one included) changes
\* its registry or PendingSet.
C6_TeardownIsolation == [][C6_Step]_vars

\* A handler of the torn-down session has just finished its negotiation by sending
\* an offer while the replacement session is live.
C6_Witness ==
    \E old \in Sessions, new \in Sessions :
        /\ old # new
        /\ sess[old].hook = sess[new].hook
        /\ ~sess[old].isActive
        /\ sess[new].isActive
        /\ lastEvent.kind = "resume"
        /\ lastEvent.sess = old
        /\ lastEvent.sent = "offer"

\* ------------------------------------------------------------------ C7
\* C7: the session in effect uses an open Signaling Channel bound to the current
\* roomId and to the identity of its own Transport context.
C7_ChannelOfCurrentRoom ==
    \A s \in Sessions :
        LET h == sess[s].hook
            c == sess[s].signaling
        IN  (sess[s].isActive /\ hook[h].effectSess = s /\ hook[h].phase = "idle")
            => /\ chan[c].room = hook[h].roomId
               /\ chan[c].peerId = LocalPeerId(s)
               /\ ~chan[c].closed

\* ------------------------------------------------------------------ C8
\* C8: while a session's liveness flag is true or its scheduler runs, its Transport
\* context is not released, its channel is not closed and no replacement Transport
\* context has been constructed.
C8_TeardownBeforeConstruction ==
    \A s \in Sessions :
        (sess[s].isActive \/ sess[s].discoveryInterval)
        => /\ ~mgr[sess[s].webrtc].cleaned
           /\ ~chan[sess[s].signaling].closed
           /\ hook[sess[s].hook].webrtcRef = sess[s].webrtc

\* ------------------------------------------------------------------ C9
C9_Step ==
    \A s \in Sessions :
        (~sess[s].isActive /\ lastEvent'.sess = s) => lastEvent'.sent # "peer-discovery"

C9_State == \A s \in Sessions : ~sess[s].isActive => ~sess[s].discoveryInterval

\* C9: a torn-down session has no interval timer left and no callback of it, the
\* delayed second broadcast included, emits a peer-discovery.
C9_NoBroadcastAfterTeardown == [](C9_State) /\ [][C9_Step]_vars

\* The delayed timer of a torn-down session has just fired.
C9_Witness ==
    /\ lastEvent.kind = "timeout"
    /\ lastEvent.sess \in Sessions
    /\ ~sess[lastEvent.sess].isActive
    /\ lastEvent.sent = "none"

\* ------------------------------------------------------------------ C10
\* C10: a handler that resumes after its session was torn down sends nothing and
\* invokes no Transport operation.
C10_InFlightCancelled ==
    [][\A s \in Sessions :
          (lastEvent'.kind = "resume" /\ lastEvent'.sess = s /\ ~sess[s].isActive)
          => (lastEvent'.sent = "none" /\ ~lastEvent'.op)]_vars

\* ------------------------------------------------------------------ C11
\* The step just taken was a handler of session s for peer p, on the initiating side
\* (the initiation itself, or the handling of p's answer), ending in a Transport
\* failure: it neither went on to a next operation, nor sent, nor applied anything.
C11_Failed(s, p) ==
    /\ lastEvent'.kind = "resume"
    /\ lastEvent'.sess = s
    /\ lastEvent'.from = p
    /\ lastEvent'.sent = "none"
    /\ ~lastEvent'.op
    /\ \/ lastEvent'.type = "peer-discovery"
       \/ lastEvent'.type = "answer" /\ conn' = conn

\* C11: when a Transport operation of the initiating side toward P fails (in the
\* initiation, or applying P's answer), P is not in PendingSet afterwards.
C11_FailureReleasesPending ==
    [][\A s \in Sessions, p \in Ids :
          C11_Failed(s, p) => p \notin sess'[s].pendingConnections]_vars

\* ------------------------------------------------------------------ C12
C12_QSuspended ==
    \E t \in BagToSet(tasks) : t.type = "offer" /\ t.from = PeerQ

C12_QAnswered ==
    /\ lastEvent.kind = "resume"
    /\ lastEvent.from = PeerQ
    /\ lastEvent.sent = "answer"

C13_Complete(g, l) ==
    LET a == LocalPeerId(g)
        b == LocalPeerId(l)
    IN  /\ a > b
        /\ sess[g].offers[b] = 1
        /\ sess[l].offers[a] = 0
        /\ [type |-> "answer", from |-> b, to |-> a, room |-> "lobby"] \in net
        /\ sess[g].peersRef[b] # 0
        /\ conn[sess[g].peersRef[b]].signalingState = "stable"
        /\ b \notin sess[g].pendingConnections
        /\ sess[l].peersRef[a] # 0
        /\ conn[sess[l].peersRef[a]].signalingState = "stable"

C13_Done == \E g \in Sessions, l \in Sessions : C13_Complete(g, l)

C14_TickBroadcast(s) ==
    /\ lastEvent.kind = "interval"
    /\ lastEvent.sess = s
    /\ lastEvent.sent = "peer-discovery"

C14_Step ==
    /\ Len(sess') > Len(sess) =>
          /\ lastEvent'.kind = "effect"
          /\ lastEvent'.sent = "peer-discovery"
          /\ sess'[Len(sess')].isActive
          /\ sess'[Len(sess')].secondTimer
          /\ sess'[Len(sess')].discoveryInterval
    /\ \A s \in Sessions :
          (lastEvent'.kind \in {"timeout", "interval"} /\ lastEvent'.sess = s /\ sess[s].isActive)
          => lastEvent'.sent = "peer-discovery"

\* C14: the effect that starts a session broadcasts peer-discovery itself, with both
\* timers still to fire; a timer callback of a live session broadcasts; the delayed
\* timer of every session eventually fires; and for every session, again and again
\* either it is torn down or its interval has just broadcast.
C14_DiscoveryCadence ==
    /\ [][C14_Step]_vars
    /\ \A s \in 1..MaxRenders :
          (s \in Sessions) ~> (s \in Sessions /\ ~sess[s].secondTimer)
    /\ \A s \in 1..MaxRenders :
          []<>(s \notin Sessions \/ ~sess[s].isActive \/ C14_TickBroadcast(s))

\* The interval of a live session has just broadcast after its delayed timer fired.
C14_Witness ==
    \E s \in Sessions :
        /\ C14_TickBroadcast(s)
        /\ sess[s].isActive
        /\ ~sess[s].secondTimer

\* ------------------------------------------------------------------ C15
\* The open Transport handles session s has had created for peer p.
HandlesOf(s, p) ==
    {k \in SeqIdx(conn) : conn[k].sess = s /\ conn[k].peer = p /\ ~conn[k].closed}

\* C15: a session has at most one open Transport handle per remote peer.
C15_OneHandlePerPeer ==
    \A s \in Sessions, p \in Ids : Cardinality(HandlesOf(s, p)) <= 1

\* ------------------------------------------------------------------ C16
\* The handlers of session s suspended applying an answer of peer p.
AnswerTasks(s, p) ==
    {t \in BagToSet(tasks) : t.sess = s /\ t.type = "answer" /\ t.from = p}

\* C16: an answer handled while a handler is suspended applying an answer of the
\* same peer is dropped: it starts no Transport operation and changes nothing.
C16_AnswerCompareAndSet ==
    [][\A s \in Sessions, p \in Ids :
          (Handled(s, "answer", p) /\ AnswerTasks(s, p) # {}) => NothingDone]_vars

\* ------------------------------------------------------------------ C17
\* C17: every session has a Transport context of its own: none works with the
\* context, and so with the per-peer handles, of an earlier session.
C17_NewContextPerSession ==
    \A s \in Sessions, t \in Sessions :
        s # t => sess[s].webrtc # sess[t].webrtc

\* ------------------------------------------------------------------ C18
\* C18: whatever broadcasts have failed, a Discovery Scheduler that runs belongs to
\* the session whose cleanup the hook holds, so that a teardown stops it.
C18_TeardownStopsScheduler ==
    \A s \in Sessions :
        sess[s].discoveryInterval => hook[sess[s].hook].effectSess = s

\* ------------------------------------------------------------------ C19
\* C19: after a peer-update callback of a live session, the registry holds no
\* record of a peer the manager does not list.
C19_DroppedPeerForgotten ==
    [][\A s \in Sessions, p \in Ids :
          (/\ lastEvent'.kind = "peerUpdate"
           /\ lastEvent'.sess = s
           /\ sess[s].isActive
           /\ mgr'[sess[s].webrtc].peers[p] = 0)
          => sess'[s].peersRef[p] = 0]_vars

\* ------------------------------------------------------------------ C20
C20_State ==
    \A s \in Sessions : \A p \in sess[s].pendingConnections : p < LocalPeerId(s)

C20_Step ==
    /\ \A s \in Sessions :
          \A p \in sess'[s].pendingConnections \ sess[s].pendingConnections :
             /\ Handled(s, "peer-discovery", p)
             /\ lastEvent'.op
    /\ Len(sess') > Len(sess) => sess'[Len(sess')].pendingConnections = {}

\* C20: every identity in a session's PendingSet is below the session's own
\* identity; a session starts with an empty PendingSet, and an identity enters it
\* only in the step that handles a peer-discovery of that identity and initiates.
C20_PendingBelowLocal == [](C20_State) /\ [][C20_Step]_vars

\* A session with a peer pending has just handled an offer, which started a handler.
C20_Witness ==
    \E s \in Sessions :
        /\ sess[s].pendingConnections # {}
        /\ lastEvent.kind = "signal"
        /\ lastEvent.sess = s
        /\ lastEvent.type = "offer"
        /\ lastEvent.op

====
